---- MODULE Spec2Model ----
\* Model of hotspot/share/memory/metaspace/chunkAllocSequence.cpp:
\* the ConstantChunkAllocSequence class, the eight compiled-in sequences
\* and ChunkAllocSequence::alloc_sequence_by_space_type.
EXTENDS Integers, Sequences, FiniteSets, TLC

\* ---------------------------------------------------------------- bounds
NumThreads == 2
MaxIndex == 5
MaxLen == 3
MaxGenLevel == 2

Threads == 1..NumThreads
\* values of num_allocated the callers pass (non-negative)
Indices == 0..MaxIndex
\* levels used for the arrays handed to the constructor directly
GenLevels == 0..MaxGenLevel
GenArrays == UNION {[1..n -> GenLevels] : n \in 0..MaxLen}

\* ------------------------------------------- chklvl_t (chunkLevel.hpp)
CHUNK_LEVEL_4M == 0
CHUNK_LEVEL_1M == 2
CHUNK_LEVEL_256K == 4
CHUNK_LEVEL_16K == 8
CHUNK_LEVEL_4K == 10
CHUNK_LEVEL_2K == 11
CHUNK_LEVEL_1K == 12
HIGHEST_CHUNK_LEVEL == 12
ChunkLevels == 0..HIGHEST_CHUNK_LEVEL
\* size of a chunk of level l, in K: the root chunk (4M) halved l times
LevelSizeK(l) == 2 ^ (HIGHEST_CHUNK_LEVEL - l)

\* ------------------------------------ MetaspaceType (external enumeration)
RecognizedSpaceTypes ==
  {"StandardMetaspaceType", "ReflectionMetaspaceType",
   "ClassMirrorHolderMetaspaceType", "BootMetaspaceType"}
\* the values a caller can pass: the four categories and the enumeration's
\* count sentinel, which no case label of the switch covers
SpaceTypeInputs == RecognizedSpaceTypes \cup {"MetaspaceTypeCount"}

\* ------------------------------------------------ fatal error reporting
\* vmassert(p, msg): the state of the VM after the assertion is evaluated
vmassert(p) == IF p THEN "none" ELSE "assert"
\* ShouldNotReachHere(): reports a fatal error and does not return
ShouldNotReachHere == "ShouldNotReachHere"

\* ------------------------------------------- hard-coded sequence arrays
g_sequ_standard_non_class_short ==
  <<CHUNK_LEVEL_4K, CHUNK_LEVEL_4K, CHUNK_LEVEL_4K, CHUNK_LEVEL_16K>>
g_sequ_standard_non_class ==
  <<CHUNK_LEVEL_4K, CHUNK_LEVEL_4K, CHUNK_LEVEL_4K, CHUNK_LEVEL_4K,
    CHUNK_LEVEL_16K>>
g_sequ_standard_class ==
  <<CHUNK_LEVEL_2K, CHUNK_LEVEL_2K, CHUNK_LEVEL_2K, CHUNK_LEVEL_2K,
    CHUNK_LEVEL_16K>>
g_sequ_anon_non_class == <<CHUNK_LEVEL_1K>>
g_sequ_anon_class_ramp == <<CHUNK_LEVEL_1K, CHUNK_LEVEL_2K>>
g_sequ_anon_class == <<CHUNK_LEVEL_1K>>
g_sequ_refl_non_class_flat == <<CHUNK_LEVEL_2K>>
g_sequ_refl_non_class == <<CHUNK_LEVEL_2K, CHUNK_LEVEL_1K>>
g_sequ_refl_class == <<CHUNK_LEVEL_1K>>
g_sequ_boot_non_class_swapped == <<CHUNK_LEVEL_1M, CHUNK_LEVEL_4M>>
g_sequ_boot_non_class == <<CHUNK_LEVEL_4M, CHUNK_LEVEL_1M>>
g_sequ_boot_class == <<CHUNK_LEVEL_1M, CHUNK_LEVEL_256K>>

\* ------------------------------------------------------------- state
VARIABLES
  objects,        \* the ConstantChunkAllocSequence instances: name -> fields
  fatal,          \* "none", or the fatal error the VM died with
  pc,             \* per thread: position
  space_type,     \* per thread: argument of its last lookup
  is_class,       \* per thread: argument of its last lookup
  seq,            \* per thread: the sequence pointer it holds
  num_allocated,  \* per thread: argument of its last get_next_chunk_level
  level           \* per thread: result of its last get_next_chunk_level

vars == <<objects, fatal, pc, space_type, is_class, seq, num_allocated, level>>

\* the fields of a ConstantChunkAllocSequence after the member initializers
ConstantChunkAllocSequence(array, num_entries) ==
  [_entries |-> array, _num_entries |-> num_entries]

\* DEFINE_CLASS_FOR_ARRAY(what): num_entries is sizeof(array)/sizeof(chklvl_t)
DEFINE_CLASS_FOR_ARRAY(array) == ConstantChunkAllocSequence(array, Len(array))

GlobalSequences ==
  [g_chunk_alloc_sequence_standard_non_class |-> DEFINE_CLASS_FOR_ARRAY(g_sequ_standard_non_class),
   g_chunk_alloc_sequence_standard_class |-> DEFINE_CLASS_FOR_ARRAY(g_sequ_standard_class),
   g_chunk_alloc_sequence_anon_non_class |-> DEFINE_CLASS_FOR_ARRAY(g_sequ_anon_non_class),
   g_chunk_alloc_sequence_anon_class |-> DEFINE_CLASS_FOR_ARRAY(g_sequ_anon_class),
   g_chunk_alloc_sequence_refl_non_class |-> DEFINE_CLASS_FOR_ARRAY(g_sequ_refl_non_class),
   g_chunk_alloc_sequence_refl_class |-> DEFINE_CLASS_FOR_ARRAY(g_sequ_refl_class),
   g_chunk_alloc_sequence_boot_non_class |-> DEFINE_CLASS_FOR_ARRAY(g_sequ_boot_non_class),
   g_chunk_alloc_sequence_boot_class |-> DEFINE_CLASS_FOR_ARRAY(g_sequ_boot_class)]

GlobalNames == DOMAIN GlobalSequences

\* the state after static initialization: the eight instances exist,
\* no thread has called anything yet
Init ==
  /\ objects = GlobalSequences
  /\ fatal = "none"
  /\ pc = [t \in Threads |-> "idle"]
  /\ space_type = [t \in Threads |-> "none"]
  /\ is_class = [t \in Threads |-> FALSE]
  /\ seq = [t \in Threads |-> "unset"]
  /\ num_allocated = [t \in Threads |-> -1]
  /\ level = [t \in Threads |-> -1]

\* ------------------------------------------------------- constructor
\* ConstantChunkAllocSequence(array, num_entries), called by thread t.
\* The member initializers store both fields, then the body asserts
\* _num_entries > 0. One directly constructed instance, "local".
ConstructAllowingEmpty(t, array, num_entries) ==
  /\ fatal = "none"
  /\ pc[t] = "idle"
  /\ "local" \notin DOMAIN objects
  /\ objects' = ("local" :> ConstantChunkAllocSequence(array, num_entries)) @@ objects
  /\ fatal' = vmassert(num_entries >= 0)
  /\ IF fatal' = "none"
       THEN /\ pc' = [pc EXCEPT ![t] = "have_seq"]
            /\ seq' = [seq EXCEPT ![t] = "local"]
       ELSE /\ pc' = [pc EXCEPT ![t] = "in_ctor"]
            /\ seq' = seq
  /\ UNCHANGED <<space_type, is_class, num_allocated, level>>

Construct(t, array, num_entries) ==
  /\ fatal = "none"
  /\ pc[t] = "idle"
  /\ "local" \notin DOMAIN objects
  /\ objects' = ("local" :> ConstantChunkAllocSequence(array, num_entries)) @@ objects
  /\ fatal' = vmassert(num_entries > 0)
  /\ IF fatal' = "none"
       THEN /\ pc' = [pc EXCEPT ![t] = "have_seq"]
            /\ seq' = [seq EXCEPT ![t] = "local"]
       ELSE /\ pc' = [pc EXCEPT ![t] = "in_ctor"]
            /\ seq' = seq
  /\ UNCHANGED <<space_type, is_class, num_allocated, level>>

\* ---------------------------------------------- get_next_chunk_level
\* the values a read of array[i] (0-based) can produce: the element, or,
\* outside the array, any chklvl_t (undefined behaviour)
ReadEntry(array, i) ==
  IF i + 1 \in DOMAIN array THEN {array[i + 1]} ELSE ChunkLevels

\* the index get_next_chunk_level reads
entry_index_off_by_one(o, n) ==
  IF n > o._num_entries THEN o._num_entries - 1 ELSE n
entry_index(o, n) ==
  IF n >= o._num_entries THEN o._num_entries - 1 ELSE n

\* a variant that consumes the array like an iterator
get_next_chunk_level_consuming(t, n) ==
  /\ fatal = "none"
  /\ pc[t] \in {"have_seq", "got"}
  /\ LET o == objects[seq[t]] IN
       /\ \E l \in ReadEntry(o._entries, 0) :
             level' = [level EXCEPT ![t] = l]
       /\ objects' = IF o._num_entries > 1
                        THEN [objects EXCEPT ![seq[t]] =
                               ConstantChunkAllocSequence(Tail(o._entries), o._num_entries - 1)]
                        ELSE objects
  /\ num_allocated' = [num_allocated EXCEPT ![t] = n]
  /\ pc' = [pc EXCEPT ![t] = "got"]
  /\ UNCHANGED <<fatal, space_type, is_class, seq>>

\* thread t calls get_next_chunk_level(n) on the sequence it holds
get_next_chunk_level(t, n) ==
  /\ fatal = "none"
  /\ pc[t] \in {"have_seq", "got"}
  /\ LET o == objects[seq[t]] IN
       \E l \in ReadEntry(o._entries, entry_index(o, n)) :
          level' = [level EXCEPT ![t] = l]
  /\ num_allocated' = [num_allocated EXCEPT ![t] = n]
  /\ pc' = [pc EXCEPT ![t] = "got"]
  /\ UNCHANGED <<objects, fatal, space_type, is_class, seq>>

\* -------------------------------------- alloc_sequence_by_space_type
\* the two switch statements; "default" stands for the default label
alloc_sequence_switch_no_boot(st, ic) ==
  IF ic
    THEN CASE st = "StandardMetaspaceType" -> "g_chunk_alloc_sequence_standard_class"
           [] st = "ReflectionMetaspaceType" -> "g_chunk_alloc_sequence_refl_class"
           [] st = "ClassMirrorHolderMetaspaceType" -> "g_chunk_alloc_sequence_anon_class"
           [] OTHER -> "default"
    ELSE CASE st = "StandardMetaspaceType" -> "g_chunk_alloc_sequence_standard_non_class"
           [] st = "ReflectionMetaspaceType" -> "g_chunk_alloc_sequence_refl_non_class"
           [] st = "ClassMirrorHolderMetaspaceType" -> "g_chunk_alloc_sequence_anon_non_class"
           [] st = "BootMetaspaceType" -> "g_chunk_alloc_sequence_boot_non_class"
           [] OTHER -> "default"
alloc_sequence_switch_boot_class(st, ic) ==
  IF ic
    THEN CASE st = "StandardMetaspaceType" -> "g_chunk_alloc_sequence_standard_class"
           [] st = "ReflectionMetaspaceType" -> "g_chunk_alloc_sequence_refl_class"
           [] st = "ClassMirrorHolderMetaspaceType" -> "g_chunk_alloc_sequence_anon_class"
           [] st = "BootMetaspaceType" -> "g_chunk_alloc_sequence_boot_class"
           [] OTHER -> "default"
    ELSE CASE st = "StandardMetaspaceType" -> "g_chunk_alloc_sequence_standard_non_class"
           [] st = "ReflectionMetaspaceType" -> "g_chunk_alloc_sequence_refl_non_class"
           [] st = "ClassMirrorHolderMetaspaceType" -> "g_chunk_alloc_sequence_anon_non_class"
           [] st = "BootMetaspaceType" -> "g_chunk_alloc_sequence_boot_non_class"
           [] OTHER -> "default"
alloc_sequence_switch(st, ic) ==
  IF ic
    THEN CASE st = "StandardMetaspaceType" -> "g_chunk_alloc_sequence_standard_class"
           [] st = "ReflectionMetaspaceType" -> "g_chunk_alloc_sequence_refl_class"
           [] st = "ClassMirrorHolderMetaspaceType" -> "g_chunk_alloc_sequence_anon_class"
           [] st = "BootMetaspaceType" -> "g_chunk_alloc_sequence_boot_non_class"
           [] OTHER -> "default"
    ELSE CASE st = "StandardMetaspaceType" -> "g_chunk_alloc_sequence_standard_non_class"
           [] st = "ReflectionMetaspaceType" -> "g_chunk_alloc_sequence_refl_non_class"
           [] st = "ClassMirrorHolderMetaspaceType" -> "g_chunk_alloc_sequence_anon_non_class"
           [] st = "BootMetaspaceType" -> "g_chunk_alloc_sequence_boot_non_class"
           [] OTHER -> "default"

\* a variant whose default label falls through to the trailing return NULL
alloc_sequence_by_space_type_null(t, st, ic) ==
  /\ fatal = "none"
  /\ pc[t] \in {"idle", "have_seq", "got"}
  /\ LET r == alloc_sequence_switch(st, ic) IN
       /\ seq' = [seq EXCEPT ![t] = IF r # "default" THEN r ELSE "NULL"]
       /\ pc' = [pc EXCEPT ![t] = IF r # "default" THEN "have_seq" ELSE "idle"]
  /\ space_type' = [space_type EXCEPT ![t] = st]
  /\ is_class' = [is_class EXCEPT ![t] = ic]
  /\ num_allocated' = [num_allocated EXCEPT ![t] = -1]
  /\ level' = [level EXCEPT ![t] = -1]
  /\ UNCHANGED <<objects, fatal>>

\* thread t calls alloc_sequence_by_space_type(st, ic); a case label returns
\* the address of an instance, the default label is ShouldNotReachHere()
alloc_sequence_by_space_type(t, st, ic) ==
  /\ fatal = "none"
  /\ pc[t] \in {"idle", "have_seq", "got"}
  /\ LET r == alloc_sequence_switch(st, ic) IN
       IF r # "default"
         THEN /\ seq' = [seq EXCEPT ![t] = r]
              /\ pc' = [pc EXCEPT ![t] = "have_seq"]
              /\ fatal' = fatal
         ELSE /\ seq' = [seq EXCEPT ![t] = "unset"]
              /\ pc' = [pc EXCEPT ![t] = "in_lookup"]
              /\ fatal' = ShouldNotReachHere
  /\ space_type' = [space_type EXCEPT ![t] = st]
  /\ is_class' = [is_class EXCEPT ![t] = ic]
  /\ num_allocated' = [num_allocated EXCEPT ![t] = -1]
  /\ level' = [level EXCEPT ![t] = -1]
  /\ UNCHANGED objects

\* ------------------------------------------------------ specifications
\* the program as linked: lookups and queries from any thread
Lookup == \E t \in Threads, st \in SpaceTypeInputs, ic \in BOOLEAN :
            alloc_sequence_by_space_type(t, st, ic)
Query == \E t \in Threads, n \in Indices : get_next_chunk_level(t, n)
Next == Lookup \/ Query
Spec == Init /\ [][Next]_vars

\* the class on its own: a sequence constructed over any array, then queried
Ctor == \E t \in Threads, array \in GenArrays :
          \E num_entries \in 0..Len(array) : Construct(t, array, num_entries)
NextCtor == Ctor \/ Query
SpecCtor == Init /\ [][NextCtor]_vars

\* ------------------------------------------------------------ helpers
Holding(t) == pc[t] \in {"have_seq", "got"}
Got(t) == pc[t] = "got"
\* thread t holds the result of a query on the sequence for (st, ic)
GotFor(t, st, ic) == Got(t) /\ space_type[t] = st /\ is_class[t] = ic
\* the levels stored in the instance named o
LevelsOf(o) == {objects[o]._entries[i] : i \in DOMAIN objects[o]._entries}

\* ---------------------------------------------------------------- C1
\* C1: a query on a constructed sequence with entries e[0..n-1], n >= 1,
\* returns e[num_allocated] when num_allocated < n and e[n-1] otherwise;
\* so every index >= n-1 yields the last entry.
C1_TailClamp ==
  \A t \in Threads :
    (Got(t) /\ seq[t] = "local" /\ objects["local"]._num_entries >= 1) =>
      LET e == objects["local"]._entries
          n == objects["local"]._num_entries
          i == num_allocated[t]
      IN /\ level[t] = (IF i < n THEN e[i + 1] ELSE e[n])
         /\ (i >= n - 1 => level[t] = e[n])

C1_Witness ==
  \E t \in Threads :
    /\ Got(t) /\ seq[t] = "local"
    /\ objects["local"]._num_entries = 2
    /\ objects["local"]._entries[1] # objects["local"]._entries[2]
    /\ num_allocated[t] > 2
    /\ level[t] = objects["local"]._entries[2]

\* ---------------------------------------------------------------- C2
\* C2: a lookup with a recognized space type and either is_class returns
\* the address of one of the compiled-in instances: never NULL, and
\* ShouldNotReachHere() is not hit.
C2_LookupTotal ==
  \A t \in Threads :
    space_type[t] \in RecognizedSpaceTypes =>
      /\ Holding(t)
      /\ seq[t] \in GlobalNames
      /\ seq[t] # "NULL"
      /\ pc[t] # "in_lookup"
      /\ fatal = ShouldNotReachHere =>
           \E u \in Threads : pc[u] = "in_lookup" /\ space_type[u] \notin RecognizedSpaceTypes

C2_Witness ==
  \E t \in Threads :
    /\ pc[t] = "have_seq" /\ space_type[t] = "BootMetaspaceType" /\ is_class[t]
    /\ seq[t] \in GlobalNames

\* ---------------------------------------------------------------- C3
\* C3: standard category, either is_class: indices 0..3 yield the smallest
\* level of the sequence (4K non-class, 2K class), every index >= 4 yields
\* the larger plateau level 16K.
C3_StandardRamp ==
  \A t \in Threads :
    (Got(t) /\ space_type[t] = "StandardMetaspaceType") =>
      LET small == IF is_class[t] THEN CHUNK_LEVEL_2K ELSE CHUNK_LEVEL_4K IN
        /\ num_allocated[t] <= 3 => level[t] = small
        /\ num_allocated[t] >= 4 => level[t] = CHUNK_LEVEL_16K
        /\ \A l \in LevelsOf(seq[t]) : LevelSizeK(small) <= LevelSizeK(l)
        /\ LevelSizeK(small) < LevelSizeK(CHUNK_LEVEL_16K)

C3_Witness ==
  \E t, u \in Threads :
    /\ GotFor(t, "StandardMetaspaceType", FALSE)
    /\ num_allocated[t] = 3 /\ level[t] = CHUNK_LEVEL_4K
    /\ GotFor(u, "StandardMetaspaceType", TRUE)
    /\ num_allocated[u] > 4 /\ level[u] = CHUNK_LEVEL_16K

\* ---------------------------------------------------------------- C4
\* C4: boot category, either is_class: index 0 yields 4M, the largest level
\* in any boot table; every index >= 1 yields the next-smaller level 1M.
BootLevels ==
  LevelsOf("g_chunk_alloc_sequence_boot_non_class")
    \cup LevelsOf("g_chunk_alloc_sequence_boot_class")

C4_BootRamp ==
  \A t \in Threads :
    (Got(t) /\ space_type[t] = "BootMetaspaceType") =>
      /\ num_allocated[t] = 0 => level[t] = CHUNK_LEVEL_4M
      /\ num_allocated[t] >= 1 => level[t] = CHUNK_LEVEL_1M
      /\ \A l \in BootLevels : LevelSizeK(l) <= LevelSizeK(CHUNK_LEVEL_4M)
      /\ \A l \in BootLevels \ {CHUNK_LEVEL_4M} :
           LevelSizeK(l) <= LevelSizeK(CHUNK_LEVEL_1M)

C4_Witness ==
  \E t, u \in Threads :
    /\ GotFor(t, "BootMetaspaceType", TRUE)
    /\ num_allocated[t] = 0 /\ level[t] = CHUNK_LEVEL_4M
    /\ GotFor(u, "BootMetaspaceType", FALSE)
    /\ num_allocated[u] > 1 /\ level[u] = CHUNK_LEVEL_1M

\* ---------------------------------------------------------------- C5
\* C5 as stated: reflection category, either is_class: index 0 yields one
\* level, index 1 a different level, and every index >= 1 that second level.
C5_ReflTwoStepBothFlags ==
  \A t, u \in Threads :
    (/\ Got(t) /\ Got(u)
     /\ space_type[t] = "ReflectionMetaspaceType"
     /\ space_type[u] = "ReflectionMetaspaceType"
     /\ is_class[t] = is_class[u]) =>
      /\ (num_allocated[t] = 0 /\ num_allocated[u] = 1) => level[t] # level[u]
      /\ (num_allocated[t] >= 1 /\ num_allocated[u] >= 1) => level[t] = level[u]

\* C5 amended: reflection category with is_class false: index 0 yields 2K
\* and every index >= 1 yields the different level 1K; with is_class true
\* every index, 0 included, yields 1K (no ramp).
C5_ReflRamp ==
  \A t \in Threads :
    (Got(t) /\ space_type[t] = "ReflectionMetaspaceType") =>
      IF is_class[t]
        THEN level[t] = CHUNK_LEVEL_1K
        ELSE /\ num_allocated[t] = 0 => level[t] = CHUNK_LEVEL_2K
             /\ num_allocated[t] >= 1 => level[t] = CHUNK_LEVEL_1K

C5_Witness ==
  \E t, u \in Threads :
    /\ GotFor(t, "ReflectionMetaspaceType", TRUE)
    /\ GotFor(u, "ReflectionMetaspaceType", TRUE)
    /\ num_allocated[t] = 0 /\ num_allocated[u] = 1
    /\ level[t] = level[u]

\* ---------------------------------------------------------------- C6
\* C6: class-mirror-holder category, either is_class: every index, 0
\* included, yields the one level 1K.
C6_AnonConstant ==
  \A t \in Threads :
    (Got(t) /\ space_type[t] = "ClassMirrorHolderMetaspaceType") =>
      level[t] = CHUNK_LEVEL_1K

C6_Witness ==
  \E t, u \in Threads :
    /\ GotFor(t, "ClassMirrorHolderMetaspaceType", TRUE)
    /\ num_allocated[t] = 0 /\ level[t] = CHUNK_LEVEL_1K
    /\ GotFor(u, "ClassMirrorHolderMetaspaceType", FALSE)
    /\ num_allocated[u] > 1 /\ level[u] = CHUNK_LEVEL_1K

\* ---------------------------------------------------------------- C7
\* C7: the boot lookups with is_class true and false return the same
\* instance, the boot non-class one; for each other category the two flags
\* return different instances; no lookup returns the boot class instance.
C7_BootShared ==
  \A t, u \in Threads :
    (Holding(t) /\ Holding(u) /\ space_type[t] = space_type[u]) =>
      /\ space_type[t] = "BootMetaspaceType" =>
           /\ seq[t] = "g_chunk_alloc_sequence_boot_non_class"
           /\ seq[u] = seq[t]
      /\ (space_type[t] # "BootMetaspaceType" /\ is_class[t] # is_class[u]) =>
           seq[t] # seq[u]
      /\ seq[t] # "g_chunk_alloc_sequence_boot_class"

C7_Witness ==
  \E t, u \in Threads :
    /\ Holding(t) /\ Holding(u)
    /\ space_type[t] = "BootMetaspaceType" /\ is_class[t]
    /\ space_type[u] = "BootMetaspaceType" /\ ~is_class[u]
    /\ seq[t] = seq[u]

\* ---------------------------------------------------------------- C8
\* C8: a lookup with a space type outside the four categories ends in the
\* fatal error: the calling thread gets no value back, neither a sequence
\* nor NULL, and stays inside the lookup.
C8_UnrecognizedIsFatal ==
  \A t \in Threads :
    space_type[t] \notin (RecognizedSpaceTypes \cup {"none"}) =>
      /\ fatal = ShouldNotReachHere
      /\ pc[t] = "in_lookup"
      /\ seq[t] = "unset"

C8_Witness ==
  \E t \in Threads :
    /\ space_type[t] = "MetaspaceTypeCount" /\ is_class[t]
    /\ fatal = ShouldNotReachHere

\* ---------------------------------------------------------------- C9
\* two threads that made the same call hold the same result
Deterministic ==
  \A t, u \in Threads :
    /\ (Holding(t) /\ Holding(u) /\ space_type[t] = space_type[u]
          /\ is_class[t] = is_class[u]) => seq[t] = seq[u]
    /\ (Got(t) /\ Got(u) /\ seq[t] = seq[u]
          /\ num_allocated[t] = num_allocated[u]) => level[t] = level[u]

\* C9: no call, from any thread in any order, changes an entry or a length
\* of any instance, and calls with the same arguments on the same sequence
\* return the same result whatever ran in between.
C9_Pure == [][objects' = objects /\ Deterministic']_vars

C9_Witness ==
  \E t, u \in Threads :
    /\ t # u /\ Got(t) /\ Got(u)
    /\ seq[t] = seq[u] /\ seq[t] = "g_chunk_alloc_sequence_standard_class"
    /\ num_allocated[t] = 4 /\ num_allocated[u] = 4
    /\ level[t] = level[u]

\* --------------------------------------------------------------- C10
\* C10: constructing a sequence with zero entries is fatal inside the
\* constructor: nothing runs afterwards, no thread receives the instance,
\* and no query is ever made on an instance with _num_entries = 0.
C10_EmptyIsFatal ==
  /\ \A o \in DOMAIN objects :
       objects[o]._num_entries = 0 =>
         /\ fatal = "assert"
         /\ \A t \in Threads : seq[t] # o
  /\ \A t \in Threads : Got(t) => objects[seq[t]]._num_entries > 0
  /\ fatal # "none" => ~ENABLED NextCtor

C10_Witness ==
  /\ "local" \in DOMAIN objects
  /\ objects["local"]._num_entries = 0
  /\ fatal = "assert"
  /\ \E t \in Threads : pc[t] = "in_ctor"
====
